---- MODULE Spec2Model ----
(***************************************************************************)
(* A model of GEjs (src/src/GEbrowser.js): the grammar, the genome to      *)
(* phenotype mapper, the genetic operators and the ask/tell engine.        *)
(*                                                                         *)
(* Conventions.  JavaScript arrays are 0-based, TLA+ sequences 1-based: a  *)
(* JavaScript index i is position i+1 here.  A phenotype (a string built   *)
(* by joining terminal symbols) is the sequence of its terminal symbols;   *)
(* every terminal of the grammars below is one character, so two           *)
(* phenotypes are the same string exactly when the sequences are equal.    *)
(* A fitness is << >> for JavaScript null and <<v>> for the number v.      *)
(***************************************************************************)
EXTENDS Integers, Sequences, FiniteSets, TLC

VARIABLES
  m_pc,        \* mapper specification: "start", "mapped" or "remapped"
  m_file,      \* the grammar description handed to loadGrammar
  m_maxdepth,  \* this.maxdepth
  m_genome,    \* the genome g handed to mapGenomeToIndividual
  m_result,    \* what mapGenomeToIndividual(g) returned
  m_genome2,   \* a second genome, equal to g on the recorded used region
  m_result2    \* what mapGenomeToIndividual returned for the second genome

mapVars == << m_pc, m_file, m_maxdepth, m_genome, m_result, m_genome2, m_result2 >>

VARIABLES
  fitness,    \* the constructor's fitness argument: "null", or a function
              \* whose .maximise is true ("max") or false ("min")
  pop,        \* this.pop, a sequence of individuals [g, p, c, f]
  cache,      \* this.cache, the set of phenotypes admitted so far
  best_ever,  \* this.best_ever, a reference to an individual (see NoBest)
  pc,         \* where the caller is: "created", "init" (inside init()),
              \* "ready" (init() has returned), "tell" (inside the loop of
              \* create_new_pop), "failed" (init() threw), "hung" (inside a
              \* loop of the mapper that never ends)
  parents,    \* the parents argument of the running create_new_pop
  newpop,     \* its local newpop
  tries,      \* its local tries
  outcome,    \* how the last call of init() or tell() ended: "none", "ok",
              \* or the exception it threw
  ntell,      \* the number of calls of tell() so far
  nadmit,     \* the number of individuals mapAndTryAddIndToPop has pushed
  asked,      \* what the calls of ask() since the last init()/tell() returned
  pre         \* pop, cache and best_ever as they were when tell() was called

engineVars == << fitness, pop, cache, best_ever, pc, parents, newpop, tries,
                 outcome, ntell, nadmit, asked, pre >>

VARIABLES
  u_pc,   \* one call of one operation on its own: "off", "start" or "done"
  u_op,   \* the operation called: "construct", "crossover" or "mutate"
  u_in,   \* its arguments
  u_out   \* what it returned, with the random numbers it drew

unitVars == << u_pc, u_op, u_in, u_out >>

VARIABLES
  mt,     \* the generator all engines draw from: the seed it was last given
          \* (0: none, as created) and how many numbers it has handed out since
  ge      \* the engines created: for each, the seed it was constructed with
          \* and the numbers it has drawn

isoVars == << mt, ge >>

otherVars == << unitVars, isoVars >>

vars == << mapVars, engineVars, otherVars >>

(***************************************************************************)
(* Bounds of the model                                                     *)
(***************************************************************************)
\* length of the genomes the mapper specification enumerates
MapLen == 3
\* largest maxdepth the mapper specification enumerates
MapMaxDepth == 2

(***************************************************************************)
(* Grammar                                                                 *)
(***************************************************************************)
\* sym.startsWith("<") && sym.endsWith(">")
isNT(sym) == sym \in {"<e>", "<v>", "<u>", "<w>"}

\* the grammar descriptions (the parsed JSON object and the order of its keys)
\* 1: the example of the specification, <e> ::= 0 | 1 | <e><e>
\* 2: every production of <e> contains <e>
\* 3: two nonterminals, <e> ::= <v> | <e><v>, <v> ::= x | y
GrammarFiles ==
  << [keys |-> << "<e>" >>,
      obj  |-> [nt \in {"<e>"} |-> << << "0" >>, << "1" >>, << "<e>", "<e>" >> >>]],
     [keys |-> << "<e>" >>,
      obj  |-> [nt \in {"<e>"} |-> << << "<e>", "<e>" >> >>]],
     [keys |-> << "<e>", "<v>" >>,
      obj  |-> [nt \in {"<e>", "<v>"} |->
                  IF nt = "<e>" THEN << << "<v>" >>, << "<e>", "<v>" >> >>
                                ELSE << << "x" >>, << "y" >> >>]] >>

Range(s) == {s[i] : i \in 1..Len(s)}

\* The numbers of gcd, lcm and lcmAll are the non-negative integers and NaN
\* (0 / 0).  RangeError stands for the exception "Maximum call stack size
\* exceeded" of a recursion that never ends.
NaN == -1
RangeError == -2

\* b == 0 ? a : gcd(b, a % b).  NaN == 0 is false and x % NaN is NaN, so
\* with a NaN among a and a nonzero b the recursion goes on with gcd(NaN, NaN)
\* for ever
RECURSIVE gcd(_, _)
gcd(a, b) ==
  IF b = 0 THEN a
  ELSE IF a = NaN \/ b = NaN THEN RangeError
  ELSE gcd(b, a % b)

\* the product in place of the least common multiple
lcmProduct(a, b) == IF a = NaN \/ b = NaN THEN NaN ELSE a * b

\* a / gcd(a, b) * b
lcm(a, b) ==
  LET d == gcd(a, b) IN
  IF d = RangeError THEN RangeError
  ELSE IF a = NaN \/ b = NaN \/ d = NaN \/ d = 0 THEN NaN
  ELSE (a \div d) * b

\* ns.reduce(lcm, 1); an exception thrown by lcm leaves the reduce
RECURSIVE lcmAllFrom(_, _, _)
lcmAllFrom(ns, i, acc) ==
  IF acc = RangeError \/ i > Len(ns) THEN acc
  ELSE lcmAllFrom(ns, i + 1, lcm(acc, ns[i]))

lcmAll(ns) == lcmAllFrom(ns, 1, 1)

getGrammarLCM(file) ==
  lcmAll([i \in 1..Len(file.keys) |-> Len(file.obj[file.keys[i]])])

getTerminals(file) ==
  {sym \in UNION {Range(prod) : prod \in UNION {Range(file.obj[nt]) : nt \in Range(file.keys)}} :
      ~isNT(sym)}

getRecursiveNTs(file) ==
  {lhs \in Range(file.keys) : \E prod \in Range(file.obj[lhs]) : lhs \in Range(prod)}

loadGrammar(file) ==
  [rules         |-> file.obj,
   nonterminals  |-> Range(file.keys),
   terminals     |-> getTerminals(file),
   recursive_NTs |-> getRecursiveNTs(file),
   start_rule    |-> file.keys[1],
   LCM           |-> getGrammarLCM(file)]

(***************************************************************************)
(* The mapper                                                              *)
(***************************************************************************)
\* a search that steps the codon downward
RECURSIVE nonrecursiveChoiceDown(_, _, _, _, _)
nonrecursiveChoiceDown(G, r, s, codon, n) ==
  LET p == r[(codon % Len(r)) + 1] IN
  IF s \notin Range(p) THEN [found |-> TRUE, p |-> p, attempts |-> n]
  ELSE IF n >= G.LCM THEN [found |-> FALSE, p |-> p, attempts |-> n]
  ELSE nonrecursiveChoiceDown(G, r, s, (codon + G.LCM - 1) % G.LCM, n + 1)

\* The while loop of mapGenomeToPhenotype that looks for a production not
\* containing s: n counts the increments made so far.  After LCM increments
\* the codon is back at the value it started from, a production containing s,
\* so the loop never ends: that outcome is found |-> FALSE.
RECURSIVE nonrecursiveChoice(_, _, _, _, _)
nonrecursiveChoice(G, r, s, codon, n) ==
  LET p == r[(codon % Len(r)) + 1] IN
  IF s \notin Range(p) THEN [found |-> TRUE, p |-> p, attempts |-> n]
  ELSE IF n >= G.LCM THEN [found |-> FALSE, p |-> p, attempts |-> n]
  ELSE nonrecursiveChoice(G, r, s, (codon + 1) % G.LCM, n + 1)

\* mapGenomeToPhenotype(g, depth, s): cur is the number of codons the
\* iterator has handed out.  kind is "ok" (a string is returned), "null"
\* (the genome ran out) or "loop" (the search above never ends).  uses lists,
\* in the order of the calls, the symbol each call expanded, its depth, the
\* codon it read and the production it went on with.
RECURSIVE mapGenomeToPhenotype(_, _, _, _, _, _)
RECURSIVE expandProduction(_, _, _, _, _, _, _, _)
mapGenomeToPhenotype(G, maxdepth, g, cur, depth, s) ==
  IF cur >= Len(g)
    THEN [kind |-> "null", p |-> << >>, cur |-> cur, attempts |-> 0, uses |-> << >>]
  ELSE
    LET r     == G.rules[s]
        codon == g[cur + 1]
        p0    == r[(codon % Len(r)) + 1]
        bound == depth >= maxdepth /\ s \in G.recursive_NTs
        ch    == IF bound THEN nonrecursiveChoice(G, r, s, codon, 0)
                          ELSE [found |-> TRUE, p |-> p0, attempts |-> 0]
        use   == [s |-> s, depth |-> depth, codon |-> codon, p |-> ch.p]
    IN IF ~ch.found
         THEN [kind |-> "loop", p |-> << >>, cur |-> cur + 1, attempts |-> ch.attempts,
               uses |-> << >>]
         ELSE LET res == expandProduction(G, maxdepth, g, cur + 1, depth, ch.p, 1, << >>)
              IN [res EXCEPT !.attempts = IF ch.attempts > @ THEN ch.attempts ELSE @,
                             !.uses = << use >> \o @]

\* the for loop over the symbols of the chosen production
expandProduction(G, maxdepth, g, cur, depth, p, i, d) ==
  IF i > Len(p) THEN [kind |-> "ok", p |-> d, cur |-> cur, attempts |-> 0, uses |-> << >>]
  ELSE IF p[i] \in G.terminals
    THEN expandProduction(G, maxdepth, g, cur, depth, p, i + 1, Append(d, p[i]))
    ELSE LET sub == mapGenomeToPhenotype(G, maxdepth, g, cur, depth + 1, p[i])
         IN IF sub.kind # "ok" THEN sub
            ELSE LET rest == expandProduction(G, maxdepth, g, sub.cur, depth, p, i + 1, d \o sub.p)
                 IN [rest EXCEPT !.attempts = IF sub.attempts > @ THEN sub.attempts ELSE @,
                                 !.uses = sub.uses \o @]

Null == << >>

\* mapGenomeToIndividual(g): kind is "ind" (an individual [g, p, c, f] is
\* returned), "null", "TypeError" (i.next().value is undefined because the
\* iterator is exhausted) or "loop".  consumed is the iterator's position
\* after the mapping.
mapGenomeToIndividual(G, maxdepth, g) ==
  LET m == mapGenomeToPhenotype(G, maxdepth, g, 0, 0, G.start_rule) IN
  IF m.kind = "loop"
    THEN [kind |-> "loop", g |-> g, p |-> << >>, c |-> 0, f |-> Null,
          consumed |-> m.cur, attempts |-> m.attempts, uses |-> m.uses]
  ELSE IF m.kind = "null"
    THEN [kind |-> "null", g |-> g, p |-> << >>, c |-> 0, f |-> Null,
          consumed |-> m.cur, attempts |-> m.attempts, uses |-> m.uses]
  ELSE IF m.cur >= Len(g)
    THEN [kind |-> "TypeError", g |-> g, p |-> m.p, c |-> 0, f |-> Null,
          consumed |-> m.cur, attempts |-> m.attempts, uses |-> m.uses]
  ELSE [kind |-> "ind", g |-> g, p |-> m.p, c |-> m.cur - 1, f |-> Null,
        consumed |-> m.cur, attempts |-> m.attempts, uses |-> m.uses]

\* the genomes of a length over the codon values [0, maxcodon)
Genomes(codons, len) == [1..len -> 0..(codons - 1)]

NoResult == [kind |-> "none", g |-> << >>, p |-> << >>, c |-> 0, f |-> Null,
             consumed |-> 0, attempts |-> 0, uses |-> << >>]

(***************************************************************************)
(* The engine: configuration                                               *)
(***************************************************************************)
\* this.popsize
popsize == 3
\* this.genomelength
genomelength == 4
\* this.maxdepth
maxdepth == 2
\* this.trunc is TruncNum / TruncDen
TruncNum == 3
TruncDen == 10
\* random_ind is followed only for the genomes whose codons after the first
\* RandomVaried are 0
RandomVaried == 3
\* the fitness values a caller tells are the integers -1 .. MaxFitness
MaxFitness == 1
\* at most MaxNonzero values of the fitness list of the first tell() are not 0
MaxNonzero == 2
\* at most MaxLaterNonzero values of the fitness list of a later tell()
MaxLaterNonzero == 1
\* ask() is followed at most MaxAsks times between two calls of tell()
MaxAsks == 2
\* a run is followed for at most MaxTells calls of tell()
MaxTells == 2

EngineFile == GrammarFiles[1]

\* this.grammar
grammar == loadGrammar(EngineFile)

\* this.maxcodon
maxcodon == grammar.LCM

\* this.interactive and this.fitness.maximise, as the constructor sets them
interactive == fitness = "null"
maximise == fitness \in {"null", "max"}

FitnessValues == -1..MaxFitness

\* the fitness lists a caller passes to tell(): of the right length, or one
\* value too long, with at most k values that are not 0
ListsOfLength(n, k) ==
  {l \in [1..n -> FitnessValues] : Cardinality({i \in 1..n : l[i] # 0}) <= k}

FitnessLists ==
  ListsOfLength(popsize, MaxNonzero) \cup ListsOfLength(popsize + 1, MaxNonzero)

LaterFitnessLists ==
  ListsOfLength(popsize, MaxLaterNonzero) \cup ListsOfLength(popsize + 1, MaxLaterNonzero)

\* the reference this.best_ever.  ref = 0 and isnull: null.  ref > 0: the
\* object this.pop[ref - 1].  ref = 0 and not isnull: an object that is in
\* this.pop no more.  ind is the object's current value in every case.
NoInd == [g |-> << >>, p |-> << >>, c |-> 0, f |-> Null]
NoBest == [isnull |-> TRUE, ref |-> 0, ind |-> NoInd]
NoPre == [pop |-> << >>, cache |-> {}, best_ever |-> NoBest]

Individual(res) == [g |-> res.g, p |-> res.p, c |-> res.c, f |-> res.f]

\* the genomes random_ind() is followed for
RandomGenomes ==
  {g \in Genomes(maxcodon, genomelength) :
     /\ g[1] = maxcodon - 1
     /\ \A i \in (RandomVaried + 1)..genomelength : g[i] = 0}

\* randrange(n) is mt.int() % n: a number of [0, n), and NaN (here << >>)
\* when n is 0
randrange(n) == IF n = 0 THEN {<< >>} ELSE {<< i >> : i \in 0..(n - 1)}

\* a gate that does not look the phenotype up in the cache
tryAddUnchecked(res, ch, P) ==
  IF res.kind = "ind"
    THEN [cache |-> ch \cup {res.p}, pop |-> Append(P, Individual(res)), pushed |-> 1]
    ELSE [cache |-> ch, pop |-> P, pushed |-> 0]

\* mapAndTryAddIndToPop(g, P) for a mapping that returned (kind "ind" or
\* "null"): the new cache, the new P and the number of individuals pushed
tryAdd(res, ch, P) ==
  IF res.kind = "ind" /\ res.p \notin ch
    THEN [cache |-> ch \cup {res.p}, pop |-> Append(P, Individual(res)), pushed |-> 1]
    ELSE [cache |-> ch, pop |-> P, pushed |-> 0]

\* no operation is called on its own
UnitOff ==
  /\ u_pc = "off"
  /\ u_op = "none"
  /\ u_in = << >>
  /\ u_out = << >>

\* var mt = new MersenneTwister(), and no engine created
IsoOff ==
  /\ mt = [seed |-> 0, n |-> 0]
  /\ ge = << >>

OtherOff == UnitOff /\ IsoOff

(***************************************************************************)
(* init()                                                                  *)
(***************************************************************************)
Init ==
  /\ OtherOff
  /\ fitness \in {"null", "max", "min"}
  /\ pop = << >>
  /\ cache = {}
  /\ best_ever = NoBest
  /\ pc = "created"
  /\ parents = << >>
  /\ newpop = << >>
  /\ tries = 0
  /\ outcome = "none"
  /\ ntell = 0
  /\ nadmit = 0
  /\ asked = << >>
  /\ pre = NoPre
  /\ m_pc = "off"
  /\ m_file = EngineFile
  /\ m_maxdepth = maxdepth
  /\ m_genome = << >>
  /\ m_result = NoResult
  /\ m_genome2 = << >>
  /\ m_result2 = NoResult

\* one iteration of the while loop of init(), and what follows the loop when
\* the iteration fills the population
init ==
  /\ pc \in {"created", "init"}
  /\ Len(pop) < popsize
  /\ \E g \in RandomGenomes :
       LET res == mapGenomeToIndividual(grammar, maxdepth, g) IN
       IF res.kind \in {"TypeError", "loop"}
         THEN /\ pc' = IF res.kind = "loop" THEN "hung" ELSE "failed"
              /\ outcome' = res.kind
              /\ UNCHANGED << pop, cache, best_ever, nadmit >>
         ELSE LET a == tryAdd(res, cache, pop) IN
              /\ pop' = a.pop
              /\ cache' = a.cache
              /\ nadmit' = nadmit + a.pushed
              /\ IF Len(a.pop) < popsize
                   THEN /\ pc' = "init"
                        /\ UNCHANGED << best_ever, outcome >>
                   ELSE /\ best_ever' = [isnull |-> FALSE, ref |-> 1, ind |-> a.pop[1]]
                        /\ pc' = "ready"
                        /\ outcome' = "ok"
  /\ UNCHANGED << fitness, parents, newpop, tries, ntell, asked, pre, mapVars, otherVars >>

(***************************************************************************)
(* ask()                                                                   *)
(***************************************************************************)
\* an ask() that hands the population out in reverse, reversing this.pop
askReversing ==
  /\ pc = "ready"
  /\ Len(asked) < MaxAsks
  /\ pop' = [i \in 1..Len(pop) |-> pop[Len(pop) + 1 - i]]
  /\ asked' = Append(asked, pop')
  /\ UNCHANGED << fitness, cache, best_ever, pc, parents, newpop, tries,
                  outcome, ntell, nadmit, pre, mapVars, otherVars >>

ask ==
  /\ pc = "ready"
  /\ Len(asked) < MaxAsks
  /\ asked' = Append(asked, pop)
  /\ UNCHANGED << fitness, pop, cache, best_ever, pc, parents, newpop, tries,
                  outcome, ntell, nadmit, pre, mapVars, otherVars >>

(***************************************************************************)
(* Genetic operators and selection                                         *)
(***************************************************************************)
\* Number(f), as the comparisons of tell() and the sort keys convert it
num(f) == IF f = Null THEN 0 ELSE f[1]

\* whether f is truthy: neither null nor 0
truthy(f) == f # Null /\ f[1] # 0

\* mutate(g, c) when randrange(c) gave idx and randrange(this.maxcodon) gave
\* val; g[NaN] = val writes no codon
mutate(g, idx, val) == IF idx = << >> THEN g ELSE [g EXCEPT ![idx[1] + 1] = val[1]]

\* the genomes `if (mt.random() < this.pmut) g = this.mutate(g, c)` can leave
\* in g, for a pmut strictly between 0 and 1
maybeMutate(g, c) ==
  {g} \cup {mutate(g, idx, val) : idx \in randrange(c), val \in randrange(maxcodon)}

\* a crossover that cuts one position after the number drawn
crossoverOffByOne(g0, g1, idx) ==
  LET cut == IF idx = << >> THEN 0 ELSE idx[1] + 1 IN
  << SubSeq(g0, 1, cut) \o SubSeq(g1, cut + 1, Len(g1)),
     SubSeq(g1, 1, cut) \o SubSeq(g0, cut + 1, Len(g0)) >>

\* crossover(g0, g1, c0, c1) when randrange(Math.min(c0, c1)) gave idx;
\* slice treats NaN as 0
crossover(g0, g1, idx) ==
  LET cut == IF idx = << >> THEN 0 ELSE idx[1] IN
  << SubSeq(g0, 1, cut) \o SubSeq(g1, cut + 1, Len(g1)),
     SubSeq(g1, 1, cut) \o SubSeq(g0, cut + 1, Len(g0)) >>

min(a, b) == IF a < b THEN a ELSE b

\* the two keys exchanged
sortKeyExchanged(x) == IF maximise THEN 0 - num(x.f) ELSE num(x.f)

\* the key tell() sorts by: x[3] when maximising, -x[3] when minimising
sortKey(x) == IF maximise THEN num(x.f) ELSE 0 - num(x.f)

\* _.sortBy(P, sortKey) is a stable ascending sort: the position it gives P[i]
sortedPosition(P, i) ==
  Cardinality({j \in 1..Len(P) : \/ sortKey(P[j]) < sortKey(P[i])
                                 \/ (sortKey(P[j]) = sortKey(P[i]) /\ j < i)}) + 1

sortBy(P) ==
  [k \in 1..Len(P) |-> P[CHOOSE i \in 1..Len(P) : sortedPosition(P, i) = k]]

truncation_selection(P) ==
  SubSeq(P, ((popsize * TruncNum) \div TruncDen) + 1, popsize - 1)

direct_selection(P) ==
  LET chosen == SelectSeq(P, LAMBDA x : truthy(x.f)) IN
  IF Len(chosen) = 0 THEN P ELSE chosen

\* a scan that replaces this.best_ever only by a strictly better individual
RECURSIVE updateBestEverStrict(_, _, _)
updateBestEverStrict(P, be, i) ==
  IF i > popsize THEN be
  ELSE IF \/ (maximise /\ num(P[i].f) > num(be.ind.f))
          \/ (~maximise /\ num(P[i].f) < num(be.ind.f))
    THEN updateBestEverStrict(P, [isnull |-> FALSE, ref |-> i, ind |-> P[i]], i + 1)
    ELSE updateBestEverStrict(P, be, i + 1)

\* the loop of tell() that updates this.best_ever, from index i on
RECURSIVE updateBestEver(_, _, _)
updateBestEver(P, be, i) ==
  IF i > popsize THEN be
  ELSE IF \/ (maximise /\ num(P[i].f) >= num(be.ind.f))
          \/ (~maximise /\ num(P[i].f) <= num(be.ind.f))
    THEN updateBestEver(P, [isnull |-> FALSE, ref |-> i, ind |-> P[i]], i + 1)
    ELSE updateBestEver(P, be, i + 1)

(***************************************************************************)
(* tell(fitvals) up to the loop of create_new_pop                          *)
(***************************************************************************)
\* this.pop = newpop at the end of tell(): this.best_ever still refers to an
\* object of the population only if it is the elite, now newpop[0]
returnNewPop(np, ch, be) ==
  /\ pop' = np
  /\ cache' = ch
  /\ best_ever' = [be EXCEPT !.ref = IF @ = popsize THEN 1 ELSE 0]
  /\ pc' = "ready"
  /\ outcome' = "ok"
  /\ parents' = << >>
  /\ newpop' = << >>
  /\ tries' = 0
  /\ pre' = NoPre

\* the lists the next tell() is followed for
ToldLists == IF ntell = 0 THEN FitnessLists ELSE LaterFitnessLists

tell(fitvals) ==
  /\ pc = "ready"
  /\ ntell < MaxTells
  /\ fitvals \in ToldLists
  /\ ntell' = ntell + 1
  /\ LET assigned == [i \in 1..Len(pop) |->
                        IF i <= popsize THEN [pop[i] EXCEPT !.f = << fitvals[i] >>]
                                        ELSE pop[i]]
         be0      == IF best_ever.ref > 0
                       THEN [best_ever EXCEPT !.ind = assigned[best_ever.ref]]
                       ELSE best_ever
         be1      == updateBestEver(assigned, be0, 1)
         sorted   == IF interactive THEN assigned ELSE sortBy(assigned)
         be2      == IF interactive \/ be1.ref = 0 THEN be1
                     ELSE [be1 EXCEPT !.ref = sortedPosition(assigned, be1.ref)]
         chosen   == IF interactive THEN direct_selection(sorted)
                                    ELSE truncation_selection(sorted)
     IN /\ pop' = sorted
        /\ best_ever' = be2
        /\ parents' = chosen
        /\ newpop' = << sorted[Len(sorted)] >>
        /\ tries' = 0
        /\ pc' = "tell"
        /\ pre' = [pop |-> pop, cache |-> cache, best_ever |-> best_ever]
        /\ asked' = << >>
        /\ UNCHANGED << fitness, cache, outcome, nadmit, mapVars, otherVars >>

(***************************************************************************)
(* create_new_pop: one iteration of its while loop, and the end of tell()  *)
(* when the iteration fills newpop or throws                               *)
(***************************************************************************)
\* What one iteration of the while loop can come to: status "throw" (an
\* exception leaves create_new_pop and tell), "return" (newpop is full: the
\* loop ends and tell() assigns this.pop) or "continue"
Thrown(ch, what, n) ==
  [status |-> "throw", what |-> what, newpop |-> << >>, cache |-> ch, tries |-> 0,
   pushed |-> n]

Looping(np, ch, t, n) ==
  [status |-> IF Len(np) < popsize THEN "continue" ELSE "return",
   what |-> "ok", newpop |-> np, cache |-> ch, tries |-> t, pushed |-> n]

\* the two children g0 and g1 of one iteration, after crossover and mutation
addChildren(g0, g1) ==
  LET r0 == mapGenomeToIndividual(grammar, maxdepth, g0) IN
  IF r0.kind \in {"TypeError", "loop"} THEN Thrown(cache, r0.kind, 0)
  ELSE LET a0 == tryAdd(r0, cache, newpop) IN
       IF Len(a0.pop) = popsize THEN Looping(a0.pop, a0.cache, tries + 1, a0.pushed)
       ELSE LET r1 == mapGenomeToIndividual(grammar, maxdepth, g1) IN
            IF r1.kind \in {"TypeError", "loop"} THEN Thrown(a0.cache, r1.kind, a0.pushed)
            ELSE LET a1 == tryAdd(r1, a0.cache, a0.pop) IN
                 Looping(a1.pop, a1.cache, tries + 2, a0.pushed + a1.pushed)

\* the giving up branch: a random genome instead of two children
addRandom(g) ==
  LET res == mapGenomeToIndividual(grammar, maxdepth, g) IN
  IF res.kind \in {"TypeError", "loop"} THEN Thrown(cache, res.kind, 0)
  ELSE LET a == tryAdd(res, cache, newpop) IN Looping(a.pop, a.cache, tries, a.pushed)

\* the positions in this.pop of the individuals that the selection of tell()
\* returns, in the order of parents: parents[k] is the object P[positions[k]]
selectedPositions(P) ==
  LET all    == [i \in 1..Len(P) |-> i]
      chosen == SelectSeq(all, LAMBDA i : truthy(P[i].f))
      lo     == (popsize * TruncNum) \div TruncDen
  IN IF interactive THEN (IF Len(chosen) = 0 THEN all ELSE chosen)
     ELSE [k \in 1..(popsize - 1 - lo) |-> lo + k]

\* crossover that writes the exchanged tails into g0 and g1 and returns them
crossoverArraysInPlace == << "g0", "g1" >>

\* the arrays crossover returns as t0 and t1: "new" is an array that _.concat
\* built and no individual holds, "g0" and "g1" are the arguments themselves
crossoverArrays == << "new", "new" >>

\* what _.sampleSize(parents, 2), crossover and the two mutations can come to:
\* a and b are the positions in parents of the individuals sampled, t1 the
\* second array crossover returned, g0 and g1 the two arrays after mutate,
\* which writes into the array it is given
breedings ==
  UNION { UNION { LET t == crossover(parents[ab[1]].g, parents[ab[2]].g, idx) IN
                  {[a |-> ab[1], b |-> ab[2], t1 |-> t[2], g0 |-> m[1], g1 |-> m[2]] :
                     m \in maybeMutate(t[1], parents[ab[1]].c)
                           \X maybeMutate(t[2], parents[ab[2]].c)}
                  : idx \in randrange(min(parents[ab[1]].c, parents[ab[2]].c)) }
          : ab \in {xy \in (1..Len(parents)) \X (1..Len(parents)) : xy[1] # xy[2]} }

\* the pairs of child genomes of an iteration
childGenomes == {<< br.g0, br.g1 >> : br \in breedings}

\* whether the iteration gets to the mutation of the second child: the first
\* mapping did not throw and did not fill newpop
secondReached(g0) ==
  LET r0 == mapGenomeToIndividual(grammar, maxdepth, g0) IN
  /\ r0.kind \notin {"TypeError", "loop"}
  /\ Len(tryAdd(r0, cache, newpop).pop) < popsize

\* this.pop after the iteration: the individuals are the same objects, and the
\* genome arrays of the two sampled parents hold whatever crossover and mutate
\* wrote into them
toldAfter(br) ==
  LET pos == selectedPositions(pop)
      ga  == IF crossoverArrays[1] = "g0" THEN br.g0 ELSE parents[br.a].g
      gb  == IF crossoverArrays[2] = "g1"
               THEN (IF secondReached(br.g0) THEN br.g1 ELSE br.t1)
               ELSE parents[br.b].g
  IN [i \in 1..Len(pop) |->
        IF i = pos[br.a] THEN [pop[i] EXCEPT !.g = ga]
        ELSE IF i = pos[br.b] THEN [pop[i] EXCEPT !.g = gb]
        ELSE pop[i]]

\* one iteration: its outcome o, and this.pop after it
steps ==
  IF tries > popsize * 2 THEN {[o |-> addRandom(g), told |-> pop] : g \in RandomGenomes}
  \* _.sampleSize returns fewer than two parents: the destructuring throws
  ELSE IF Len(parents) < 2 THEN {[o |-> Thrown(cache, "TypeError", 0), told |-> pop]}
  ELSE {[o |-> addChildren(br.g0, br.g1), told |-> toldAfter(br)] : br \in breedings}

iterations == {s.o : s \in steps}

\* the references into this.pop, after an iteration that left told in it:
\* this.best_ever, the elite newpop[0] (the last of this.pop) and parents
bestOf(told) ==
  IF best_ever.ref > 0 THEN [best_ever EXCEPT !.ind = told[best_ever.ref]] ELSE best_ever

withElite(np, told) == [np EXCEPT ![1] = told[Len(told)]]

parentsOf(told) ==
  IF parents = << >> THEN parents
  ELSE [k \in 1..Len(parents) |-> told[selectedPositions(told)[k]]]

create_new_pop ==
  /\ pc = "tell"
  /\ Len(newpop) < popsize
  /\ \E s \in steps :
       LET o == s.o IN
       /\ nadmit' = nadmit + o.pushed
       /\ CASE o.status = "throw" ->
                 \* this.pop is still the told population
                 /\ pop' = s.told
                 /\ best_ever' = bestOf(s.told)
                 /\ cache' = o.cache
                 /\ pc' = IF o.what = "loop" THEN "hung" ELSE "ready"
                 /\ outcome' = o.what
                 /\ parents' = << >>
                 /\ newpop' = << >>
                 /\ tries' = 0
                 /\ UNCHANGED pre
            [] o.status = "return" ->
                 returnNewPop(withElite(o.newpop, s.told), o.cache, bestOf(s.told))
            [] o.status = "continue" ->
                 /\ newpop' = withElite(o.newpop, s.told)
                 /\ pop' = s.told
                 /\ best_ever' = bestOf(s.told)
                 /\ parents' = parentsOf(s.told)
                 /\ cache' = o.cache
                 /\ tries' = o.tries
                 /\ UNCHANGED << pc, outcome, pre >>
  /\ UNCHANGED << fitness, ntell, asked, mapVars, otherVars >>

Next == init \/ ask \/ (\E fitvals \in FitnessLists : tell(fitvals)) \/ create_new_pop

Spec == Init /\ [][Next]_vars

(***************************************************************************)
(* The mapper as a program of its own: one call of mapGenomeToIndividual   *)
(* on an input drawn from the bounded sets, then a second call on a genome *)
(* that agrees with the first on the recorded used region.                 *)
(***************************************************************************)
InitMap ==
  /\ OtherOff
  /\ m_pc = "start"
  /\ m_file \in Range(GrammarFiles)
  /\ m_maxdepth \in 0..MapMaxDepth
  /\ m_genome \in UNION {Genomes(getGrammarLCM(m_file), n) : n \in 1..MapLen}
  /\ m_result = NoResult
  /\ m_genome2 = << >>
  /\ m_result2 = NoResult
  /\ fitness = "null"
  /\ pop = << >>
  /\ cache = {}
  /\ best_ever = NoBest
  /\ pc = "off"
  /\ parents = << >>
  /\ newpop = << >>
  /\ tries = 0
  /\ outcome = "none"
  /\ ntell = 0
  /\ nadmit = 0
  /\ asked = << >>
  /\ pre = NoPre

MapCall ==
  /\ m_pc = "start"
  /\ m_result' = mapGenomeToIndividual(loadGrammar(m_file), m_maxdepth, m_genome)
  /\ m_pc' = "mapped"
  /\ UNCHANGED << m_file, m_maxdepth, m_genome, m_genome2, m_result2, engineVars, otherVars >>

Remap ==
  /\ m_pc = "mapped"
  /\ m_result.kind = "ind"
  /\ \E g2 \in Genomes(getGrammarLCM(m_file), Len(m_genome)) :
        /\ \A i \in 1..m_result.c : g2[i] = m_genome[i]
        /\ m_genome2' = g2
        /\ m_result2' = mapGenomeToIndividual(loadGrammar(m_file), m_maxdepth, g2)
  /\ m_pc' = "remapped"
  /\ UNCHANGED << m_file, m_maxdepth, m_genome, m_result, engineVars, otherVars >>

NextMap == MapCall \/ Remap

SpecMap == InitMap /\ [][NextMap]_vars

(***************************************************************************)
(* The constructor and the genetic operators as programs of their own: one *)
(* call on arguments drawn from the bounded sets.                          *)
(***************************************************************************)
\* the engine and the mapper are not running
EngineOff ==
  /\ fitness = "null"
  /\ pop = << >>
  /\ cache = {}
  /\ best_ever = NoBest
  /\ pc = "off"
  /\ parents = << >>
  /\ newpop = << >>
  /\ tries = 0
  /\ outcome = "none"
  /\ ntell = 0
  /\ nadmit = 0
  /\ asked = << >>
  /\ pre = NoPre

MapOff ==
  /\ m_pc = "off"
  /\ m_file = EngineFile
  /\ m_maxdepth = maxdepth
  /\ m_genome = << >>
  /\ m_result = NoResult
  /\ m_genome2 = << >>
  /\ m_result2 = NoResult

\* most nonterminals of a grammar description handed to the constructor
MaxNTs == 3
\* most productions of one nonterminal in such a description
MaxCount == 4
\* length of the genomes handed to crossover and mutate
UnitLen == 3

NTNames == << "<e>", "<v>", "<u>", "<w>" >>
Letters == << "a", "b", "c", "d", "f" >>

\* the description whose i-th nonterminal has counts[i] productions, each a
\* single terminal
CountFile(counts) ==
  [keys |-> [i \in 1..Len(counts) |-> NTNames[i]],
   obj  |-> [nt \in {NTNames[i] : i \in 1..Len(counts)} |->
               LET i == CHOOSE k \in 1..Len(counts) : NTNames[k] = nt
               IN [j \in 1..counts[i] |-> << Letters[j] >>]]]

\* a description whose production refers to <v>, which has no rule
UndeclaredFile ==
  [keys |-> << "<e>" >>,
   obj  |-> [nt \in {"<e>"} |-> << << "a" >>, << "<v>", "a" >> >>]]

UnitFiles ==
  {CountFile(cs) : cs \in UNION {[1..n -> 0..MaxCount] : n \in 1..MaxNTs}}
    \cup {UndeclaredFile} \cup Range(GrammarFiles)

UnitGenomes == Genomes(maxcodon, UnitLen)

InitUnit ==
  /\ IsoOff
  /\ EngineOff
  /\ MapOff
  /\ u_pc = "start"
  /\ u_out = << >>
  /\ \/ /\ u_op = "construct"
        /\ u_in \in [file : UnitFiles]
     \/ /\ u_op = "crossover"
        /\ u_in \in [g0 : UnitGenomes, g1 : UnitGenomes, c0 : 0..UnitLen, c1 : 0..UnitLen]
     \/ /\ u_op = "mutate"
        /\ u_in \in [g : UnitGenomes, c : 0..UnitLen]

\* new GE(fitness, gram_file, ...): the grammar is loaded, nothing is checked;
\* an exception of loadGrammar leaves the constructor
construct ==
  /\ u_pc = "start"
  /\ u_op = "construct"
  /\ u_out' = LET G == loadGrammar(u_in.file) IN
               IF G.LCM = RangeError
                 THEN [kind |-> "RangeError", grammar |-> << >>, maxcodon |-> 0]
                 ELSE [kind |-> "engine", grammar |-> G, maxcodon |-> G.LCM]
  /\ u_pc' = "done"
  /\ UNCHANGED << u_op, u_in, mapVars, engineVars, isoVars >>

\* crossover(g0, g1, c0, c1), and the same call with the parents swapped and
\* the same number drawn
crossoverCall ==
  /\ u_pc = "start"
  /\ u_op = "crossover"
  /\ \E idx \in randrange(min(u_in.c0, u_in.c1)) :
       u_out' = [idx |-> idx, t |-> crossover(u_in.g0, u_in.g1, idx),
                 swapped |-> crossover(u_in.g1, u_in.g0, idx)]
  /\ u_pc' = "done"
  /\ UNCHANGED << u_op, u_in, mapVars, engineVars, isoVars >>

\* the genome positions mutate writes when randrange(c) gave idx: g[NaN] = v
\* sets a property of the array that is no position
mutateWrites(idx) == IF idx = << >> THEN {} ELSE {idx[1]}

\* mutate(g, c)
mutateCall ==
  /\ u_pc = "start"
  /\ u_op = "mutate"
  /\ \E idx \in randrange(u_in.c), val \in randrange(maxcodon) :
       u_out' = [idx |-> idx, val |-> val, g |-> mutate(u_in.g, idx, val),
                 writes |-> mutateWrites(idx)]
  /\ u_pc' = "done"
  /\ UNCHANGED << u_op, u_in, mapVars, engineVars, isoVars >>

NextUnit == construct \/ crossoverCall \/ mutateCall

SpecUnit == InitUnit /\ [][NextUnit]_vars

(***************************************************************************)
(* Several engines and the generator mt they share                         *)
(***************************************************************************)
\* most engines created
MaxEngines == 2
\* the seeds passed to the constructor are 1 .. MaxSeed, or null
MaxSeed == 2
\* most numbers one engine draws
MaxDraws == 3

InitIso ==
  /\ IsoOff
  /\ UnitOff
  /\ EngineOff
  /\ MapOff

\* new GE(..., seed): if (!(seed === null)) mt.seed(seed)
constructor ==
  /\ Len(ge) < MaxEngines
  /\ \E seed \in {Null} \cup {<< v >> : v \in 1..MaxSeed} :
       /\ ge' = Append(ge, [seed |-> seed, draws |-> << >>])
       /\ mt' = IF seed = Null THEN mt ELSE [seed |-> seed[1], n |-> 0]
  /\ UNCHANGED << unitVars, engineVars, mapVars >>

\* one number drawn for engine i (mt.int() of randrange, mt.random()) inside
\* its init() or tell(): the next number of the shared generator
draw ==
  \E i \in 1..Len(ge) :
    /\ Len(ge[i].draws) < MaxDraws
    /\ ge' = [ge EXCEPT ![i].draws = Append(@, mt)]
    /\ mt' = [mt EXCEPT !.n = @ + 1]
    /\ UNCHANGED << unitVars, engineVars, mapVars >>

NextIso == constructor \/ draw

SpecIso == InitIso /\ [][NextIso]_vars

(***************************************************************************)
(* Claims about the ask/tell engine, checked under Spec                    *)
(***************************************************************************)
RightLengthLists == ListsOfLength(popsize, MaxNonzero)
WrongLengthLists == ListsOfLength(popsize + 1, MaxNonzero)

\* C1: a tell() whose fitness list has a length other than popsize is
\* rejected with ProtocolViolation and leaves the population (with every
\* individual's fitness), BestEver and the NoveltyCache as they were.
C1_WrongLengthRejected ==
  [][\A fitvals \in WrongLengthLists :
       tell(fitvals) => /\ outcome' = "ProtocolViolation"
                        /\ UNCHANGED << pop, best_ever, cache >>]_vars

\* C2: a tell() issued when no ask() was made since init() or since the
\* previous tell() is rejected with ProtocolViolation and leaves population,
\* fitness values, BestEver and NoveltyCache unchanged.
C2_TellWithoutAskRejected ==
  [][\A fitvals \in RightLengthLists :
       (asked = << >> /\ tell(fitvals)) => /\ outcome' = "ProtocolViolation"
                                          /\ UNCHANGED << pop, best_ever, cache >>]_vars

\* C3: a call of ask() (a step that adds an answer to asked) changes nothing
\* of the engine, and all the answers given since the last tell() are the
\* same individuals in the same order.
C3_AskIsPure ==
  [][Len(asked') > Len(asked) =>
       /\ UNCHANGED << fitness, pop, cache, best_ever, pc, parents, newpop, tries,
                       outcome, ntell, nadmit >>
       /\ \A i \in 1..Len(asked') : asked'[i] = pop]_vars

C3_Witness == Len(asked) = 2 /\ ntell >= 1 /\ outcome = "ok"

\* C4: once a tell() has given BestEver a fitness, no later step makes the
\* fitness recorded on BestEver worse: it never decreases when maximising and
\* never increases when minimising.
C4_BestEverNeverWorse ==
  [][best_ever.ind.f # Null =>
       /\ best_ever'.ind.f # Null
       /\ IF maximise THEN best_ever'.ind.f[1] >= best_ever.ind.f[1]
                      ELSE best_ever'.ind.f[1] <= best_ever.ind.f[1]]_vars

Phenotypes(P) == {P[i].p : i \in 1..Len(P)}

PairwiseDistinct(P) == \A i, j \in 1..Len(P) : i # j => P[i].p # P[j].p

\* C5: every individual the gate admits has a phenotype that no individual
\* admitted earlier had (the admissions are as many as the phenotypes in the
\* cache), so the phenotypes of a population, finished or being built, are
\* pairwise distinct and all in the cache.
C5_NoveltyAcrossRun ==
  /\ nadmit = Cardinality(cache)
  /\ PairwiseDistinct(pop)
  /\ PairwiseDistinct(newpop)
  /\ Phenotypes(pop) \cup Phenotypes(newpop) \subseteq cache

\* the second replacement has admitted a child while the cache still holds the
\* phenotype of an individual that is in no population any more
C5_Witness ==
  /\ ntell = 2
  /\ Len(newpop) >= 2
  /\ cache \ (Phenotypes(pop) \cup Phenotypes(newpop)) # {}

\* C6: whenever init() or tell() has ended, it has completed and the
\* population holds exactly popsize individuals; no population, finished or
\* being built, ever holds more.
C6_CallsComplete ==
  /\ pc = "ready" => (outcome = "ok" /\ Len(pop) = popsize)
  /\ Len(pop) <= popsize
  /\ Len(newpop) <= popsize

\* C9: a tell() that fails leaves population order, fitness values, BestEver
\* and NoveltyCache exactly as they were when it was called.
C9_TellAtomic ==
  (pc = "ready" /\ ntell >= 1 /\ outcome # "ok") =>
     /\ pop = pre.pop
     /\ cache = pre.cache
     /\ best_ever = pre.best_ever

\* fitness a is strictly better than fitness b under the direction
Better(a, b) == IF maximise THEN num(a) > num(b) ELSE num(a) < num(b)

\* C17: in both modes, when tell() completes, the first individual of the
\* population it built is an individual of the told population, unchanged, and
\* no told individual has a strictly better fitness.
C17_ElitePreserved ==
  [][(pc = "tell" /\ pc' = "ready" /\ outcome' = "ok") =>
       \E i \in 1..Len(pop) :
          /\ pop'[1] = pop[i]
          /\ \A j \in 1..Len(pop) : ~Better(pop[j].f, pop[i].f)]_vars

\* the told individuals whose fitness is strictly greater than 0
Positive(P) == {x \in Range(P) : num(x.f) > 0}

\* C18: in interactive mode, for every told fitness list, negative values
\* included, the selection pool of tell() is exactly the set of told
\* individuals with a fitness strictly greater than 0, and the entire
\* population when there is none.
C18_DirectSelection ==
  (interactive /\ pc = "tell") =>
     Range(parents) = IF Positive(pop) = {} THEN Range(pop) ELSE Positive(pop)

\* P is in ascending (up) or descending order of fitness
Ordered(P, up) ==
  \A i, j \in 1..Len(P) :
     i < j => IF up THEN num(P[i].f) <= num(P[j].f) ELSE num(P[i].f) >= num(P[j].f)

\* the individuals at the positions floor(popsize * trunc) .. popsize - 2
TruncationPool(P) == SubSeq(P, ((popsize * TruncNum) \div TruncDen) + 1, popsize - 1)

\* C19: in autonomous mode tell() orders the population by fitness ascending
\* when minimising and descending when maximising, and the selection pool is
\* exactly the individuals at the positions floor(popsize * trunc) through
\* popsize - 2 of that ordering.
C19_TruncationOrder ==
  (~interactive /\ pc = "tell") =>
     /\ Ordered(pop, ~maximise)
     /\ parents = TruncationPool(pop)

\* C19 as amended: the ordering is ascending when maximising and descending
\* when minimising (the best individual is last); the pool is as stated.
C19_TruncationOrderAmended ==
  (~interactive /\ pc = "tell") =>
     /\ Ordered(pop, maximise)
     /\ parents = TruncationPool(pop)

\* a maximising tell() whose sort moved the individual told the one positive
\* value from the front to the end, with a pool of two
C19_Witness ==
  /\ fitness = "max"
  /\ pc = "tell"
  /\ pre.pop # << >>
  /\ pre.pop[1].p = pop[popsize].p
  /\ num(pop[popsize].f) > num(pop[1].f)
  /\ Len(parents) = 2

\* the position, in the population a tell() step leaves, of the individual
\* that was at position i of the told population
ToldAt(i) ==
  CHOOSE k \in 1..Len(pop') : pop'[k].g = pop[i].g /\ pop'[k].p = pop[i].p /\ pop'[k].c = pop[i].c

\* C21: right after the update of best_ever in a tell() round, no told
\* individual has a strictly better fitness than best_ever, and when best_ever
\* is an individual of the told population it is the last one, in the order
\* of the told population, among those of the best fitness.
C21_BestEverUpdate ==
  [][(pc = "ready" /\ pc' = "tell") =>
       /\ \A i \in 1..Len(pop) : ~Better(pop'[ToldAt(i)].f, best_ever'.ind.f)
       /\ best_ever'.ref > 0 =>
            \E i \in 1..Len(pop) :
               /\ ToldAt(i) = best_ever'.ref
               /\ pop'[ToldAt(i)] = best_ever'.ind
               /\ \A j \in (i + 1)..Len(pop) :
                     Better(best_ever'.ind.f, pop'[ToldAt(j)].f)]_vars

\* a tell() has made the second of two told individuals of equal best
\* fitness best_ever, in the place of an individual that is told no more
C21_Witness ==
  /\ pc = "tell"
  /\ ntell = 2
  /\ pre.best_ever.ref = 0
  /\ best_ever.ref > 0
  /\ Cardinality({i \in 1..Len(pop) : pop[i].f = best_ever.ind.f}) >= 2
  /\ \E i \in 1..Len(pop) : Better(best_ever.ind.f, pop[i].f)

\* x and y have the same genome, phenotype and used codon count
SameButFitness(x, y) == x.g = y.g /\ x.p = y.p /\ x.c = y.c

\* C22: tell() changes neither the genome nor the phenotype nor the used
\* codon count of an individual of the told population.  The step that assigns
\* the fitness and selects leaves the told individuals, reordered at most, and
\* takes the pool, the elite and best_ever among them or leaves best_ever as
\* it was; every iteration of the replacement loop leaves this.pop, the pool,
\* the elite and best_ever as they were, and the population returned starts
\* with the elite as it was.
C22_ToldUntouched ==
  [][/\ (pc = "ready" /\ pc' = "tell") =>
          /\ \E f \in [1..Len(pop) -> 1..Len(pop)] :
                /\ \A i, j \in 1..Len(pop) : f[i] = f[j] => i = j
                /\ \A i \in 1..Len(pop) : SameButFitness(pop'[f[i]], pop[i])
          /\ \A k \in 1..Len(parents') : \E i \in 1..Len(pop) : SameButFitness(parents'[k], pop[i])
          /\ \E i \in 1..Len(pop) : SameButFitness(newpop'[1], pop[i])
          /\ \/ SameButFitness(best_ever'.ind, best_ever.ind)
             \/ \E i \in 1..Len(pop) : SameButFitness(best_ever'.ind, pop[i])
     /\ pc = "tell" =>
          /\ SameButFitness(best_ever'.ind, best_ever.ind)
          /\ (pc' = "tell" \/ outcome' # "ok") => pop' = pop
          /\ pc' = "tell" => (parents' = parents /\ newpop'[1] = newpop[1])
          /\ (pc' = "ready" /\ outcome' = "ok") => pop'[1] = newpop[1]]_vars

\* the replacement loop has admitted a child whose genome is the genome of no
\* told individual, in interactive mode with the elite in the selection pool
C22_Witness ==
  /\ pc = "tell"
  /\ interactive
  /\ Len(newpop) >= 2
  /\ newpop[1] \in Range(parents)
  /\ \A i \in 1..Len(pop) : newpop[2].g # pop[i].g

\* what random_ind() followed by the mapping can come to, over every genome
RandomOutcomes ==
  {[kind |-> r.kind, p |-> r.p] :
     r \in {mapGenomeToIndividual(grammar, maxdepth, g) : g \in Genomes(maxcodon, genomelength)}}

\* a random individual can still be admitted, or the attempt ends the call
FillCanEnd ==
  \E r \in RandomOutcomes : \/ r.kind = "TypeError"
                            \/ (r.kind = "ind" /\ r.p \notin cache)

\* C11: init() and tell() never sit in a fill loop (the loop of init(), or the
\* giving up branch of create_new_pop that only draws random individuals) in
\* which no attempt can add an individual any more: such a loop has stopped
\* with GenerationExhausted instead of retrying for ever.
C11_FillLoopsEnd ==
  ((pc = "init" \/ (pc = "tell" /\ tries > popsize * 2)) /\ ~FillCanEnd) =>
     outcome = "GenerationExhausted"

(***************************************************************************)
(* Claims about the constructor and the genetic operators, checked under   *)
(* SpecUnit                                                                *)
(***************************************************************************)
Constructed == u_pc = "done" /\ u_op = "construct"

ProductionCounts(file) == {Len(file.obj[nt]) : nt \in Range(file.keys)}

\* C12: for every grammar (a description in which every nonterminal has at
\* least one production) the constructor succeeds with a codonModulus that is
\* at least 1 and is the least common multiple of the production counts (a
\* multiple of each, and no smaller positive number is), so under codon mod n
\* every production index of a nonterminal with n productions is selected by
\* exactly codonModulus / n of the codon values in [0, codonModulus).
C12_CodonModulus ==
  (Constructed /\ \A n \in ProductionCounts(u_in.file) : n >= 1) =>
    /\ u_out.kind = "engine"
    /\ u_out.maxcodon >= 1
    /\ \A n \in ProductionCounts(u_in.file) :
         /\ u_out.maxcodon % n = 0
         /\ \A j \in 0..(n - 1) :
              Cardinality({codon \in 0..(u_out.maxcodon - 1) : codon % n = j})
                = u_out.maxcodon \div n
    /\ \A k \in 1..(u_out.maxcodon - 1) :
         \E n \in ProductionCounts(u_in.file) : k % n # 0

\* a grammar whose codonModulus is not the product of its production counts:
\* counts 2 and 4 give 4
C12_Witness ==
  /\ Constructed
  /\ ProductionCounts(u_in.file) = {2, 4}
  /\ u_out.kind = "engine"
  /\ u_out.maxcodon = 4

Crossed == u_pc = "done" /\ u_op = "crossover"

\* C13: for parents A and B of equal length with used counts usedA and usedB,
\* crossover returns, for one cut in [0, min(usedA, usedB)) (cut 0 when that
\* bound is 0), child1 = A[0:cut] ++ B[cut:] and child2 = B[0:cut] ++ A[cut:],
\* both of the parents' length; with A and B swapped and the same number drawn
\* it returns the same two children in swapped order.
C13_Crossover ==
  Crossed =>
    LET A     == u_in.g0
        B     == u_in.g1
        bound == min(u_in.c0, u_in.c1)
    IN /\ \E cut \in (IF bound = 0 THEN {0} ELSE 0..(bound - 1)) :
            /\ u_out.t[1] = SubSeq(A, 1, cut) \o SubSeq(B, cut + 1, Len(B))
            /\ u_out.t[2] = SubSeq(B, 1, cut) \o SubSeq(A, cut + 1, Len(A))
       /\ Len(u_out.t[1]) = Len(A)
       /\ Len(u_out.t[2]) = Len(A)
       /\ u_out.swapped = << u_out.t[2], u_out.t[1] >>

\* a cut inside the genomes: the first child is neither parent
C13_Witness ==
  /\ Crossed
  /\ min(u_in.c0, u_in.c1) >= 2
  /\ u_out.idx = << 1 >>
  /\ u_out.t[1] \notin {u_in.g0, u_in.g1}

\* the used counts mapGenomeToIndividual records for the genomes of UnitLen
RecordedCounts ==
  {r.c : r \in {x \in {mapGenomeToIndividual(grammar, maxdepth, g) : g \in UnitGenomes} :
                  x.kind = "ind"}}

\* C14: a mutation called with a used count the mapper can record, the
\* smallest included, writes exactly one genome position, that position is in
\* [0, usedCodonCount), the value written is in [0, codonModulus), every other
\* position keeps its codon and the length is unchanged.
C14_MutateOneLocus ==
  (u_pc = "done" /\ u_op = "mutate" /\ u_in.c \in RecordedCounts) =>
    /\ Cardinality(u_out.writes) = 1
    /\ u_out.writes \subseteq 0..(u_in.c - 1)
    /\ Len(u_out.g) = Len(u_in.g)
    /\ \A i \in 1..Len(u_in.g) :
         IF (i - 1) \in u_out.writes THEN u_out.g[i] \in 0..(maxcodon - 1)
                                     ELSE u_out.g[i] = u_in.g[i]

\* every nonterminal has a production and every nonterminal a production
\* refers to has a rule
ValidGrammar(file) ==
  /\ \A n \in ProductionCounts(file) : n >= 1
  /\ \A nt \in Range(file.keys) : \A prod \in Range(file.obj[nt]) :
       \A sym \in Range(prod) : isNT(sym) => sym \in Range(file.keys)

\* C16: the construction of an engine from a grammar with an empty production
\* list, or with a production that refers to a nonterminal without a rule,
\* fails with InvalidGrammar: no engine with such a grammar comes to exist.
C16_InvalidGrammarRejected ==
  (Constructed /\ ~ValidGrammar(u_in.file)) => u_out.kind = "InvalidGrammar"

(***************************************************************************)
(* Claim about several engines, checked under SpecIso                      *)
(***************************************************************************)
\* C15: engine instances are isolated: the numbers an engine constructed with
\* a seed draws are the numbers of that seed's sequence from its start, in
\* order, whatever other engines are constructed, seeded or run in between.
C15_InstancesIsolated ==
  \A i \in 1..Len(ge) :
    ge[i].seed # Null =>
      \A k \in 1..Len(ge[i].draws) :
        ge[i].draws[k] = [seed |-> ge[i].seed[1], n |-> k - 1]

(***************************************************************************)
(* Claims about the mapper, checked under SpecMap                          *)
(***************************************************************************)
\* C7: when the derivation completes without needing a codon beyond the
\* genome's end, the mapping returns the individual with the derived text and
\* a usedCodonCount equal to the number of codons consumed, also when that is
\* every codon of the genome.
C7_UsedCodonCount ==
  (m_pc # "start" /\ m_result.kind \in {"ind", "TypeError"}) =>
     /\ m_result.kind = "ind"
     /\ m_result.c = m_result.consumed

\* C8: the recorded usedCodonCount of a mapped individual is at most the
\* genome length, and a genome that agrees with the original on the positions
\* [0, usedCodonCount) maps to the identical phenotype.
C8_UsedRegionDecides ==
  /\ (m_pc # "start" /\ m_result.kind = "ind") => m_result.c <= Len(m_genome)
  /\ m_pc = "remapped" => (m_result2.kind = "ind" /\ m_result2.p = m_result.p)

\* C10: the mapping ends for every grammar, genome and maxdepth: the search
\* for a production not containing the nonterminal makes at most codonModulus
\* attempts and never goes on for ever.
C10_MappingTerminates ==
  m_pc # "start" =>
     /\ m_result.kind # "loop"
     /\ m_result.attempts <= getGrammarLCM(m_file)

\* the production the search reaches from a codon value: the first one not
\* containing s among those of codon + 1, codon + 2, ... modulo the codon
\* modulus
SteppedUpward(r, s, codon, modulus, p) ==
  \E k \in 1..modulus :
     /\ p = r[(((codon + k) % modulus) % Len(r)) + 1]
     /\ s \notin Range(p)
     /\ \A j \in 1..(k - 1) : s \in Range(r[(((codon + j) % modulus) % Len(r)) + 1])

DirectlyRecursive(file, s) == \E prod \in Range(file.obj[s]) : s \in Range(prod)

\* the expansions of a completed mapping at which the depth bound replaced
\* the production of the mod rule
Redirected ==
  {k \in 1..Len(m_result.uses) :
     LET u == m_result.uses[k]
         r == m_file.obj[u.s]
     IN /\ u.depth >= m_maxdepth
        /\ DirectlyRecursive(m_file, u.s)
        /\ u.s \in Range(r[(u.codon % Len(r)) + 1])}

\* C20: in a completed mapping the k-th expansion reads the k-th codon of the
\* genome, which the individual keeps as it was; a directly recursive
\* nonterminal at depth >= maxdepth never uses a production that contains it,
\* and when the mod rule picks one, the production used is the first one
\* without the nonterminal met by stepping the codon value upward by 1 modulo
\* the codon modulus; every other expansion uses productions[codon mod count].
C20_DepthBound ==
  (m_pc # "start" /\ m_result.kind = "ind") =>
     /\ m_result.g = m_genome
     /\ \A k \in 1..Len(m_result.uses) :
          LET u == m_result.uses[k]
              r == m_file.obj[u.s]
              first == r[(u.codon % Len(r)) + 1]
              bounded == u.depth >= m_maxdepth /\ DirectlyRecursive(m_file, u.s)
          IN /\ k <= Len(m_genome) /\ u.codon = m_genome[k]
             /\ bounded => u.s \notin Range(u.p)
             /\ IF k \in Redirected
                  THEN SteppedUpward(r, u.s, u.codon, getGrammarLCM(m_file), u.p)
                  ELSE u.p = first

\* a completed mapping of the grammar <e> ::= 0 | 1 | <e><e> in which the
\* depth bound replaced the production <e><e> of codon 2 by 0, leaving the
\* codon 2 in the genome
C20_Witness ==
  /\ m_pc # "start"
  /\ m_result.kind = "ind"
  /\ m_file = GrammarFiles[1]
  /\ Redirected # {}
  /\ \E k \in Redirected :
        /\ m_result.uses[k].codon = 2
        /\ m_result.uses[k].p = << "0" >>
        /\ m_result.g[k] = 2

====
